---- MODULE Spec2Model ----
(***************************************************************************)
(* EduNote text pipeline: chunker, summary and quiz parsers, the external  *)
(* generator wrapper, the lazily initialised handle and the extraction     *)
(* dispatcher.  Texts are sequences of one-character strings; positions    *)
(* are 0-based as in the Python source.                                    *)
(***************************************************************************)
EXTENDS Integers, Sequences, FiniteSets, TLC

\* ------------------------------------------------------------------ bounds
\* Longest raw input text given to the chunker.
MaxLen == 5
\* Largest window size (max_chars) given to the chunker.
MaxChars == 3

\* Most chunks handed to summarize.
MaxChunks == 3
\* Most lines in one generated text read by summarize.
MaxOutLines == 3
\* Most lines in the generated text read by quiz.
MaxQuizLines == 3
\* Most requests served by one process.
MaxRequests == 2
\* Longest standard output of the external process.
MaxStdoutLen == 4

\* ------------------------------------------------------ program constants
\* summarize keeps at most this many bullets and stops once it has them.
BulletCap == 5
\* summarize cuts the joined summary to this many characters.
SummaryCap == 800

\* ------------------------------------------------------- string primitives
Max(S) == CHOOSE x \in S : \A y \in S : y <= x

Min2(a, b) == IF a <= b THEN a ELSE b

\* Characters the chunker is exercised on: a letter, a period and whitespace.
Alphabet == {"a", ".", " ", "\n"}

\* str.strip() with no argument removes whitespace.
Whitespace == {" ", "\n", "\t", "\r"}

SeqsUpTo(S, n) == UNION {[1..k -> S] : k \in 0..n}

\* s[a:b] for 0 <= a and b <= len(s).
Slice(s, a, b) == SubSeq(s, a + 1, b)

\* s.lstrip(chars): drop the longest prefix made of members of chars.
RECURSIVE LStripChars(_, _)
LStripChars(s, chars) ==
    IF s # <<>> /\ Head(s) \in chars THEN LStripChars(Tail(s), chars) ELSE s

\* s.rstrip(chars): drop the longest suffix made of members of chars.
RECURSIVE RStripChars(_, _)
RStripChars(s, chars) ==
    IF s # <<>> /\ s[Len(s)] \in chars
    THEN RStripChars(SubSeq(s, 1, Len(s) - 1), chars)
    ELSE s

StripChars(s, chars) == RStripChars(LStripChars(s, chars), chars)

Strip(s) == StripChars(s, Whitespace)

\* s.rfind(c, a, b): the highest index in [a, b) holding c, or -1.
rfind(s, c, a, b) ==
    LET I == {i \in a..(b - 1) : s[i + 1] = c}
    IN  IF I = {} THEN -1 ELSE Max(I)

Range(f) == {f[i] : i \in DOMAIN f}

\* s[:n]
Take(s, n) == SubSeq(s, 1, Min2(n, Len(s)))

\* s.startswith(p)
StartsWith(s, p) == Len(s) >= Len(p) /\ SubSeq(s, 1, Len(p)) = p

\* s.endswith(p)
EndsWith(s, p) == Len(s) >= Len(p) /\ SubSeq(s, Len(s) - Len(p) + 1, Len(s)) = p

\* Words the parsers look for are single symbols of a text; their case
\* variants are distinct symbols that lower() and upper() map together.
LowerOf(c) ==
    CASE c = "Summary" -> "summary"
      [] c = "SUMMARY" -> "summary"
      [] c = "Question" -> "question"
      [] c = "QUESTION" -> "question"
      [] c = "A" -> "a"
      [] c = "B" -> "b"
      [] c = "C" -> "c"
      [] c = "D" -> "d"
      [] c = "E" -> "e"
      [] c = "X" -> "x"
      [] c = "P" -> "p"
      [] c = "F" -> "f"
      [] c = "T" -> "t"
      [] c = "O" -> "o"
      [] OTHER -> c

UpperOf(c) ==
    CASE c = "a" -> "A"
      [] c = "b" -> "B"
      [] c = "c" -> "C"
      [] c = "d" -> "D"
      [] c = "e" -> "E"
      [] c = "x" -> "X"
      [] c = "p" -> "P"
      [] c = "f" -> "F"
      [] c = "t" -> "T"
      [] c = "o" -> "O"
      [] OTHER -> c

\* s.lower() and s.upper()
Lower(s) == [i \in 1..Len(s) |-> LowerOf(s[i])]

Upper(s) == [i \in 1..Len(s) |-> UpperOf(s[i])]

\* The 1-based positions where p occurs in s.
Occurrences(s, p) ==
    {i \in 1..(Len(s) - Len(p) + 1) : SubSeq(s, i, i + Len(p) - 1) = p}

\* p in s
Contains(s, p) == Occurrences(s, p) # {}

\* s.split(p, 1)[1] for s containing p: what follows the first occurrence.
AfterFirst(s, p) ==
    LET i == CHOOSE j \in Occurrences(s, p) : \A k \in Occurrences(s, p) : j <= k
    IN  SubSeq(s, i + Len(p), Len(s))

\* s.split(p)[-1]: what follows the last occurrence, or s when p is absent.
AfterLast(s, p) ==
    IF Occurrences(s, p) = {} THEN s
    ELSE SubSeq(s, Max(Occurrences(s, p)) + Len(p), Len(s))

\* sep.join(parts)
RECURSIVE Join(_, _)
Join(sep, parts) ==
    IF parts = <<>> THEN <<>>
    ELSE IF Len(parts) = 1 THEN parts[1]
    ELSE parts[1] \o sep \o Join(sep, Tail(parts))

\* s.splitlines(), for texts whose only line boundary is "\n": a final
\* newline ends the last line and opens no empty one.
RECURSIVE SplitLines(_)
SplitLines(s) ==
    IF s = <<>> THEN <<>>
    ELSE IF Occurrences(s, <<"\n">>) = {} THEN <<s>>
    ELSE LET i == CHOOSE j \in Occurrences(s, <<"\n">>) :
                      \A k \in Occurrences(s, <<"\n">>) : j <= k
         IN  <<SubSeq(s, 1, i - 1)>> \o SplitLines(SubSeq(s, i + 1, Len(s)))

RECURSIVE Concat(_)
Concat(ss) == IF ss = <<>> THEN <<>> ELSE Head(ss) \o Concat(Tail(ss))

\* ------------------------------------------------------------------ state
VARIABLES
    raw,        \* simple_chunk_text: the text argument as passed
    max_chars,  \* simple_chunk_text: the max_chars argument
    text,       \* simple_chunk_text: the local text after strip()
    start,      \* simple_chunk_text: the cursor
    chunks,     \* simple_chunk_text: the list being built
    cuts,       \* history of the loop: one record per iteration
    cpc,        \* simple_chunk_text: "call", "loop" or "done"
    textGiven,  \* summarize: whether the payload carries a non-empty text
    nChunks,    \* summarize: len(chunks)
    sIdx,       \* summarize: how many chunks the for loop has taken
    linesLeft,  \* summarize: lines of the current out still to read
    bullets,    \* summarize: the bullets list
    summary_paragraphs, \* summarize: the summary_paragraphs list
    submitted,  \* history: the chunks handed to llama.generate, in order
    sFailedAt,  \* history: the chunk whose generation failed, 0 when none
    sResponse,  \* summarize: what the request ends with
    spc,        \* summarize: control state
    refIdx,     \* the loop without its break: chunks taken so far
    refLinesLeft, \* the loop without its break: lines of out still to read
    refBullets, \* the loop without its break: the bullets list
    refParagraphs, \* the loop without its break: summary_paragraphs
    refResponse, \* the loop without its break: what is returned
    refpc,      \* the loop without its break: control state
    out,        \* quiz: the text llama.generate returned
    lines,      \* quiz: the trimmed non-empty lines still to read
    current_q,  \* quiz: the open question, <<>> for None, else <<record>>
    questions,  \* quiz: the questions list
    opened,     \* history: the question text of each record, as it was opened
    qResponse,  \* quiz: what the request ends with
    qpc,        \* quiz: control state
    modelFile,  \* os.path.isfile(DEFAULT_MODEL) at this moment
    binFile,    \* os.path.isfile(DEFAULT_BIN) at this moment
    _llama,     \* the module global: "None" or "handle"
    reqCount,   \* requests started so far
    endpoint,   \* the handler serving the current request
    proc,       \* LlamaWrapper.generate: what subprocess.run returned
    rResponse,  \* what the current request ends with
    checked,    \* history: get_llama tested the files in this request
    absentAtGet, \* history: a file was absent when get_llama ran
    invoked,    \* history: subprocess.run was called in this request
    parseCalls, \* history: runs of _parse_output in this request
    rpc,        \* control state of the current request
    filename,   \* the declared name of the uploaded file
    content,    \* the bytes of the uploaded file
    via,        \* "upload" through upload_file, "direct" for a direct call
    selected,   \* history: the extraction procedure that was run
    fileRead,   \* history: the file at tmp_path was opened
    eResult,    \* what the extraction ends with
    epc         \* extraction: control state

chunkVars == <<raw, max_chars, text, start, chunks, cuts, cpc>>

refVars == <<refIdx, refLinesLeft, refBullets, refParagraphs, refResponse,
             refpc>>

sumVars == <<textGiven, nChunks, sIdx, linesLeft, bullets, summary_paragraphs,
             submitted, sFailedAt, sResponse, spc, refVars>>

quizVars == <<out, lines, current_q, questions, opened, qResponse, qpc>>

fileVars == <<modelFile, binFile>>

reqVars == <<_llama, reqCount, endpoint, proc, rResponse, checked, absentAtGet,
             invoked, parseCalls, rpc>>

llamaVars == <<fileVars, reqVars>>

extractVars == <<filename, content, via, selected, fileRead, eResult, epc>>

vars == <<chunkVars, sumVars, quizVars, llamaVars, extractVars>>

\* What the steps of one component leave alone.
notChunk == <<sumVars, quizVars, llamaVars, extractVars>>

notSum == <<chunkVars, quizVars, llamaVars, extractVars>>

notQuiz == <<chunkVars, sumVars, llamaVars, extractVars>>

notLlama == <<chunkVars, sumVars, quizVars, extractVars>>

notExtract == <<chunkVars, sumVars, quizVars, llamaVars>>

\* What each component's variables hold while another component is studied.
ChunkIdle ==
    /\ raw = <<>>
    /\ max_chars = 1
    /\ text = <<>>
    /\ start = 0
    /\ chunks = <<>>
    /\ cuts = <<>>
    /\ cpc = "idle"

SumIdle ==
    /\ textGiven = FALSE
    /\ nChunks = 0
    /\ sIdx = 0
    /\ linesLeft = 0
    /\ bullets = <<>>
    /\ summary_paragraphs = <<>>
    /\ submitted = <<>>
    /\ sFailedAt = 0
    /\ sResponse = [kind |-> "none"]
    /\ spc = "idle"
    /\ refIdx = 0
    /\ refLinesLeft = 0
    /\ refBullets = <<>>
    /\ refParagraphs = <<>>
    /\ refResponse = [kind |-> "none"]
    /\ refpc = "idle"

QuizIdle ==
    /\ out = <<>>
    /\ lines = <<>>
    /\ current_q = <<>>
    /\ questions = <<>>
    /\ opened = <<>>
    /\ qResponse = [status |-> "pending"]
    /\ qpc = "idle"

NoProc == [returncode |-> 0, stdout |-> <<>>, stderr |-> <<>>]

LlamaIdle ==
    /\ modelFile = TRUE
    /\ binFile = TRUE
    /\ _llama = "None"
    /\ reqCount = 0
    /\ endpoint = "none"
    /\ proc = NoProc
    /\ rResponse = [kind |-> "none"]
    /\ checked = FALSE
    /\ absentAtGet = FALSE
    /\ invoked = FALSE
    /\ parseCalls = 0
    /\ rpc = "off"

ExtractIdle ==
    /\ filename = <<>>
    /\ content = "none"
    /\ via = "none"
    /\ selected = "none"
    /\ fileRead = FALSE
    /\ eResult = [kind |-> "none"]
    /\ epc = "off"

\* ---------------------------------------------------------------- chunker
\* A window one character too wide.
WindowEnd_TooWide(s, m, L) == Min2(s + m + 1, L)

\* end = min(start + max_chars, L)
WindowEnd(s, m, L) == Min2(s + m, L)

\* How the split point of one iteration is found: by the last newline of the
\* window, else by its last period, else by the hard cut at the window end.
SplitHow(t, s, e) ==
    IF rfind(t, "\n", s, e) > s THEN "newline"
    ELSE IF rfind(t, ".", s, e) > s THEN "period"
    ELSE "hard"

\* The second test written "<" instead of "<=": a period sitting at the cursor
\* is accepted as the split point.
SplitIndex_NoFallbackAtCursor(t, s, e) ==
    LET s1 == rfind(t, "\n", s, e)
        s2 == IF s1 <= s THEN rfind(t, ".", s, e) ELSE s1
    IN  IF s2 < s THEN e ELSE s2

\* split_index after the two "if split_index <= start" tests.
SplitIndex(t, s, e) ==
    LET s1 == rfind(t, "\n", s, e)
        s2 == IF s1 <= s THEN rfind(t, ".", s, e) ELSE s1
    IN  IF s2 <= s THEN e ELSE s2

\* The chunk appended by one iteration: text[start:split_index].strip()
ChunkOf(t, s, split_index) == Strip(Slice(t, s, split_index))

\* The cursor moved past the separator, which is then lost.
NextStart_SkipSeparator(split_index) == split_index + 1

\* start = split_index
NextStart(split_index) == split_index

ChunkInit ==
    /\ raw \in SeqsUpTo(Alphabet, MaxLen)
    /\ max_chars \in 1..MaxChars
    /\ text = <<>>
    /\ start = 0
    /\ chunks = <<>>
    /\ cuts = <<>>
    /\ cpc = "call"

\* Entry: text = text.strip(); the empty text returns [] at once.
ChunkCall ==
    /\ cpc = "call"
    /\ text' = Strip(raw)
    /\ start' = 0
    /\ chunks' = <<>>
    /\ cpc' = IF Strip(raw) = <<>> THEN "done" ELSE "loop"
    /\ UNCHANGED <<raw, max_chars, cuts, notChunk>>

\* One iteration of "while start < L".
ChunkStep ==
    /\ cpc = "loop"
    /\ start < Len(text)
    /\ LET end == WindowEnd(start, max_chars, Len(text))
           split_index == SplitIndex(text, start, end)
       IN  /\ chunks' = Append(chunks, ChunkOf(text, start, split_index))
           /\ cuts' = Append(cuts, [from |-> start, to |-> split_index,
                                    how |-> SplitHow(text, start, end)])
           /\ start' = NextStart(split_index)
    /\ UNCHANGED <<raw, max_chars, text, cpc, notChunk>>

\* The loop test fails: return chunks.
ChunkReturn ==
    /\ cpc = "loop"
    /\ ~(start < Len(text))
    /\ cpc' = "done"
    /\ UNCHANGED <<raw, max_chars, text, start, chunks, cuts, notChunk>>

ChunkNext == ChunkCall \/ ChunkStep \/ ChunkReturn

\* simple_chunk_text as a function of its arguments (the same loop, unrolled).
RECURSIVE ChunkLoop(_, _, _)
ChunkLoop(t, m, s) ==
    IF s < Len(t)
    THEN LET end == WindowEnd(s, m, Len(t))
             split_index == SplitIndex(t, s, end)
         IN  <<ChunkOf(t, s, split_index)>> \o ChunkLoop(t, m, NextStart(split_index))
    ELSE <<>>

simple_chunk_text(t, m) == ChunkLoop(Strip(t), m, 0)

\* -------------------------------------------------------------- summarize
\* Exit statuses of the external process.
ExitCodes == {0, 1}

\* Only a negative status (a process killed by a signal) taken as a failure.
GenerateRaises_OnlyNegative(returncode) == returncode < 0

\* LlamaWrapper.generate raises RuntimeError when proc.returncode != 0.
GenerateRaises(returncode) == returncode # 0

\* Lines a generated text is made of, as splitlines() yields them: bullets
\* with and without padding, a repeated and an empty bullet, a summary line
\* with a colon and one without (both yield the same paragraph), and a line
\* that is neither.
GenLines == {
    <<"-", " ", "a">>,
    <<"-", "b">>,
    <<"-", " ", "c">>,
    <<"-", "d">>,
    <<"-", "e">>,
    <<"-", "f">>,
    <<" ", "-", "-", " ", "a", " ">>,
    <<"-", " ">>,
    <<"Summary", ":", " ", "SUMMARY">>,
    <<"SUMMARY">>,
    <<"a">> }

\* The bullet kept even when it is already in the list.
AddBullet_NoDedup(bl, b) == IF b # <<>> THEN Append(bl, b) ELSE bl

\* if b and b not in bullets: bullets.append(b)
AddBullet(bl, b) ==
    IF b # <<>> /\ b \notin Range(bl) THEN Append(bl, b) ELSE bl

\* The bullets list after one line of out has been read.
BulletsAfter(bl, rawline) ==
    LET line == Strip(rawline)
    IN  IF StartsWith(line, <<"-">>)
        THEN AddBullet(bl, Strip(LStripChars(line, {"-", " "})))
        ELSE bl

\* The summary_paragraphs list after one line of out has been read.
ParagraphsAfter(sp, rawline) ==
    LET line == Strip(rawline)
    IN  IF StartsWith(line, <<"-">>) THEN sp
        ELSE IF StartsWith(Lower(line), <<"summary">>)
        THEN IF Contains(line, <<":">>)
             THEN Append(sp, Strip(AfterFirst(line, <<":">>)))
             ELSE Append(sp, Strip(line))
        ELSE sp

\* " ".join(summary_paragraphs)[:800] if summary_paragraphs else ""
SummaryText(sp) ==
    IF sp # <<>> THEN Take(Join(<<" ">>, sp), SummaryCap) ELSE <<>>

\* The handler keeps reading chunks after a failed generation.
OnGenerateError_Continue == "loop"

\* Where summarize goes when llama.generate raises: nothing catches the
\* exception, so the handler ends there.
OnGenerateError == "failed"

\* The loop left as soon as four bullets are held.
StopsEarly_OneShort(bl) == Len(bl) >= BulletCap - 1

\* if len(bullets) >= 5: break
StopsEarly(bl) == Len(bl) >= BulletCap

SumInit ==
    /\ textGiven \in BOOLEAN
    /\ nChunks \in 0..MaxChunks
    /\ ~textGiven => nChunks = 0
    /\ sIdx = 0
    /\ linesLeft = 0
    /\ bullets = <<>>
    /\ summary_paragraphs = <<>>
    /\ submitted = <<>>
    /\ sFailedAt = 0
    /\ sResponse = [kind |-> "none"]
    /\ spc = "call"
    /\ refIdx = 0
    /\ refLinesLeft = 0
    /\ refBullets = <<>>
    /\ refParagraphs = <<>>
    /\ refResponse = [kind |-> "none"]
    /\ refpc = "idle"

\* Entry of summarize up to the for loop: the empty text is refused with 400,
\* get_llama() either raises its HTTPException or returns the handle.
SumCall ==
    /\ spc = "call"
    /\ IF ~textGiven
       THEN /\ spc' = "failed"
            /\ sResponse' = [kind |-> "http_400"]
       ELSE \E handle \in BOOLEAN :
              IF handle
              THEN spc' = "loop" /\ UNCHANGED sResponse
              ELSE /\ spc' = "failed"
                   /\ sResponse' = [kind |-> "configuration_error"]
    /\ UNCHANGED <<textGiven, nChunks, sIdx, linesLeft, bullets,
                   summary_paragraphs, submitted, sFailedAt, refVars, notSum>>

\* The for loop takes the next chunk and calls llama.generate on its prompt.
SumGenerate ==
    /\ spc = "loop"
    /\ sIdx < nChunks
    /\ sIdx' = sIdx + 1
    /\ submitted' = Append(submitted, sIdx + 1)
    /\ \E returncode \in ExitCodes :
         IF GenerateRaises(returncode)
         THEN /\ spc' = OnGenerateError
              /\ sFailedAt' = sIdx + 1
              /\ sResponse' = [kind |-> "generation_error"]
              /\ UNCHANGED linesLeft
         ELSE /\ spc' = "lines"
              /\ linesLeft' \in 0..MaxOutLines
              /\ UNCHANGED <<sFailedAt, sResponse>>
    /\ UNCHANGED <<textGiven, nChunks, bullets, summary_paragraphs, refVars,
                   notSum>>

\* One iteration of "for line in out.splitlines()".
SumLine ==
    /\ spc = "lines"
    /\ linesLeft > 0
    /\ linesLeft' = linesLeft - 1
    /\ \E rawline \in GenLines :
         /\ bullets' = BulletsAfter(bullets, rawline)
         /\ summary_paragraphs' = ParagraphsAfter(summary_paragraphs, rawline)
    /\ UNCHANGED <<textGiven, nChunks, sIdx, submitted, sFailedAt, sResponse,
                   spc, refVars, notSum>>

\* The lines of out are read: "if len(bullets) >= 5: break".
SumChunkEnd ==
    /\ spc = "lines"
    /\ linesLeft = 0
    /\ spc' = IF StopsEarly(bullets) THEN "return" ELSE "loop"
    /\ UNCHANGED <<textGiven, nChunks, sIdx, linesLeft, bullets,
                   summary_paragraphs, submitted, sFailedAt, sResponse,
                   refVars, notSum>>

\* After the loop: bullets = bullets[:5], the summary is joined and cut, and
\* both are returned.  The loop without its break stands at the same chunk
\* with the same lists.
SumReturn ==
    /\ \/ spc = "return"
       \/ spc = "loop" /\ sIdx >= nChunks
    /\ bullets' = Take(bullets, BulletCap)
    /\ sResponse' = [kind |-> "ok",
                     bullets |-> Take(bullets, BulletCap),
                     summary |-> SummaryText(summary_paragraphs)]
    /\ spc' = "done"
    /\ refIdx' = sIdx
    /\ refBullets' = bullets
    /\ refParagraphs' = summary_paragraphs
    /\ refpc' = "loop"
    /\ UNCHANGED <<textGiven, nChunks, sIdx, linesLeft, summary_paragraphs,
                   submitted, sFailedAt, refLinesLeft, refResponse, notSum>>

SumNext == SumCall \/ SumGenerate \/ SumLine \/ SumChunkEnd \/ SumReturn

\* The loop of summarize with "if len(bullets) >= 5: break" taken out, on
\* the same chunks.  Up to the handler's return the two loops run the same
\* statements on the same lines, so this one goes on from the lists and the
\* position the handler had there; generation succeeds on every chunk left.
RefGenerate ==
    /\ refpc = "loop"
    /\ refIdx < nChunks
    /\ refIdx' = refIdx + 1
    /\ refLinesLeft' \in 0..MaxOutLines
    /\ refpc' = "lines"
    /\ UNCHANGED <<textGiven, nChunks, sIdx, linesLeft, bullets,
                   summary_paragraphs, submitted, sFailedAt, sResponse, spc,
                   refBullets, refParagraphs, refResponse, notSum>>

\* One iteration of "for line in out.splitlines()".
RefLine ==
    /\ refpc = "lines"
    /\ refLinesLeft > 0
    /\ refLinesLeft' = refLinesLeft - 1
    /\ \E rawline \in GenLines :
         /\ refBullets' = BulletsAfter(refBullets, rawline)
         /\ refParagraphs' = ParagraphsAfter(refParagraphs, rawline)
    /\ UNCHANGED <<textGiven, nChunks, sIdx, linesLeft, bullets,
                   summary_paragraphs, submitted, sFailedAt, sResponse, spc,
                   refIdx, refResponse, refpc, notSum>>

\* The lines of out are read; the loop goes on whatever the bullets are.
RefChunkEnd ==
    /\ refpc = "lines"
    /\ refLinesLeft = 0
    /\ refpc' = "loop"
    /\ UNCHANGED <<textGiven, nChunks, sIdx, linesLeft, bullets,
                   summary_paragraphs, submitted, sFailedAt, sResponse, spc,
                   refIdx, refLinesLeft, refBullets, refParagraphs,
                   refResponse, notSum>>

\* After the last chunk: bullets[:5] and the joined, cut summary.
RefReturn ==
    /\ refpc = "loop"
    /\ refIdx >= nChunks
    /\ refResponse' = [kind |-> "ok",
                       bullets |-> Take(refBullets, BulletCap),
                       summary |-> SummaryText(refParagraphs)]
    /\ refpc' = "done"
    /\ UNCHANGED <<textGiven, nChunks, sIdx, linesLeft, bullets,
                   summary_paragraphs, submitted, sFailedAt, sResponse, spc,
                   refIdx, refLinesLeft, refBullets, refParagraphs, notSum>>

SumRefNext ==
    \/ SumCall \/ SumGenerate \/ SumLine \/ SumChunkEnd \/ SumReturn
    \/ RefGenerate \/ RefLine \/ RefChunkEnd \/ RefReturn

\* ------------------------------------------------------------------- quiz
\* Lines a generated quiz text is made of: question lines by their first word
\* and by their final "?", option lines with each separator, in either case,
\* with and without an answer marker, answer-only lines with and without the
\* parenthesis, a line that is none of these, and a blank line.
QuizRawLines == {
    <<" ", "Question", " ", "x">>,
    <<"x", "?">>,
    <<"A", ")", " ", "x">>,
    <<"b", ".", " ", "x", " ", "(", "Answer:", " ", "B", ")">>,
    <<"C", " ", "Answer:", " ", "C">>,
    <<"D", ")", " ", "x", "?">>,
    <<"(", "Answer:", " ", "D", ")">>,
    <<"Answer:", " ", "A">>,
    <<"x">>,
    <<" ">> }

\* The texts llama.generate may return: up to MaxQuizLines lines joined by
\* newlines.
QuizOuts == {Join(<<"\n">>, ls) : ls \in SeqsUpTo(QuizRawLines, MaxQuizLines)}

RECURSIVE SelectNonEmpty(_)
SelectNonEmpty(ls) ==
    IF ls = <<>> THEN <<>>
    ELSE IF Head(ls) # <<>> THEN <<Head(ls)>> \o SelectNonEmpty(Tail(ls))
    ELSE SelectNonEmpty(Tail(ls))

\* lines = [l.strip() for l in out.splitlines() if l.strip()]
TrimmedLines(o) ==
    LET ls == SplitLines(o)
    IN  SelectNonEmpty([i \in 1..Len(ls) |-> Strip(ls[i])])

\* l.lower().startswith("question") or l.endswith("?")
IsQuestionLine(l) ==
    StartsWith(Lower(l), <<"question">>) \/ EndsWith(l, <<"?">>)

\* l.upper().startswith(("A)", "B)", "C)", "D)", "A.", ..., "A ", ..., "D "))
IsOptionLine(l) ==
    /\ Len(l) >= 2
    /\ Upper(l)[1] \in {"A", "B", "C", "D"}
    /\ Upper(l)[2] \in {")", ".", " "}

\* {"question": q, "options": [], "answer": None}; None is <<>>.
NewQuestion(q) == [question |-> q, options |-> <<>>, answer |-> <<>>]

\* The loop body with its final else branch left out: a line that is neither
\* a question, an option nor an answer opens nothing.
ParseLine_NoFallbackQuestion(cur, qs, l) ==
    IF IsQuestionLine(l)
    THEN [current_q |-> <<NewQuestion(l)>>,
          questions |-> IF cur # <<>> THEN Append(qs, cur[1]) ELSE qs]
    ELSE IF IsOptionLine(l)
    THEN LET base == IF cur = <<>> THEN NewQuestion(<<>>) ELSE cur[1]
             withOption == [base EXCEPT !.options = Append(@, l)]
         IN  [current_q |->
                 <<IF Contains(l, <<"(", "Answer:">>) \/ Contains(l, <<"Answer:">>)
                   THEN [withOption EXCEPT !.answer =
                            <<StripChars(AfterLast(l, <<"Answer:">>), {" ", ")"})>>]
                   ELSE withOption>>,
              questions |-> qs]
    ELSE IF Contains(l, <<"(", "Answer:">>)
    THEN [current_q |->
             IF cur # <<>>
             THEN <<[cur[1] EXCEPT !.answer =
                       <<StripChars(AfterFirst(l, <<"(", "Answer:">>), {" ", ")"})>>]>>
             ELSE cur,
          questions |-> qs]
    ELSE [current_q |-> cur, questions |-> qs]

\* The loop body with "questions.append(current_q)" left out of the question
\* branch: the open question is replaced, not committed.
ParseLine_DropsOpenQuestion(cur, qs, l) ==
    IF IsQuestionLine(l)
    THEN [current_q |-> <<NewQuestion(l)>>, questions |-> qs]
    ELSE IF IsOptionLine(l)
    THEN LET base == IF cur = <<>> THEN NewQuestion(<<>>) ELSE cur[1]
             withOption == [base EXCEPT !.options = Append(@, l)]
         IN  [current_q |->
                 <<IF Contains(l, <<"(", "Answer:">>) \/ Contains(l, <<"Answer:">>)
                   THEN [withOption EXCEPT !.answer =
                            <<StripChars(AfterLast(l, <<"Answer:">>), {" ", ")"})>>]
                   ELSE withOption>>,
              questions |-> qs]
    ELSE IF Contains(l, <<"(", "Answer:">>)
    THEN [current_q |->
             IF cur # <<>>
             THEN <<[cur[1] EXCEPT !.answer =
                       <<StripChars(AfterFirst(l, <<"(", "Answer:">>), {" ", ")"})>>]>>
             ELSE cur,
          questions |-> qs]
    ELSE [current_q |-> IF cur = <<>> THEN <<NewQuestion(l)>> ELSE cur,
          questions |-> qs]

\* One iteration of "for l in lines": current_q and questions afterwards.
ParseLine(cur, qs, l) ==
    IF IsQuestionLine(l)
    THEN [current_q |-> <<NewQuestion(l)>>,
          questions |-> IF cur # <<>> THEN Append(qs, cur[1]) ELSE qs]
    ELSE IF IsOptionLine(l)
    THEN LET base == IF cur = <<>> THEN NewQuestion(<<>>) ELSE cur[1]
             withOption == [base EXCEPT !.options = Append(@, l)]
         IN  [current_q |->
                 <<IF Contains(l, <<"(", "Answer:">>) \/ Contains(l, <<"Answer:">>)
                   THEN [withOption EXCEPT !.answer =
                            <<StripChars(AfterLast(l, <<"Answer:">>), {" ", ")"})>>]
                   ELSE withOption>>,
              questions |-> qs]
    ELSE IF Contains(l, <<"(", "Answer:">>)
    THEN [current_q |->
             IF cur # <<>>
             THEN <<[cur[1] EXCEPT !.answer =
                       <<StripChars(AfterFirst(l, <<"(", "Answer:">>), {" ", ")"})>>]>>
             ELSE cur,
          questions |-> qs]
    ELSE [current_q |-> IF cur = <<>> THEN <<NewQuestion(l)>> ELSE cur,
          questions |-> qs]

\* The structured list returned even when it is empty.
QuizResponse_AlwaysStructured(qs, o) == [quiz |-> qs, quiz_raw |-> o]

\* if not questions: return {"quiz_raw": out}
\* return {"quiz": questions, "quiz_raw": out}
QuizResponse(qs, o) ==
    IF qs = <<>> THEN [quiz_raw |-> o] ELSE [quiz |-> qs, quiz_raw |-> o]

QuizInit ==
    /\ out = <<>>
    /\ lines = <<>>
    /\ current_q = <<>>
    /\ questions = <<>>
    /\ opened = <<>>
    /\ qResponse = [status |-> "pending"]
    /\ qpc = "call"

\* Entry of quiz up to the for loop: the empty text is refused with 400,
\* get_llama() may raise its HTTPException, llama.generate may raise; else
\* out is the generated text and lines its trimmed non-empty lines.
QuizCall ==
    /\ qpc = "call"
    /\ \/ /\ qpc' = "failed"
          /\ qResponse' \in {[status |-> "http_400"],
                             [status |-> "configuration_error"],
                             [status |-> "generation_error"]}
          /\ UNCHANGED <<out, lines>>
       \/ /\ out' \in QuizOuts
          /\ lines' = TrimmedLines(out')
          /\ qpc' = "lines"
          /\ UNCHANGED qResponse
    /\ UNCHANGED <<current_q, questions, opened, notQuiz>>

\* One iteration of "for l in lines".  current_q is bound to a new dict on
\* every question line and, on the other lines, only when it was None.
QuizLine ==
    /\ qpc = "lines"
    /\ lines # <<>>
    /\ LET after == ParseLine(current_q, questions, Head(lines))
       IN  /\ current_q' = after.current_q
           /\ questions' = after.questions
           /\ opened' =
                 IF /\ after.current_q # <<>>
                    /\ current_q = <<>> \/ IsQuestionLine(Head(lines))
                 THEN Append(opened, after.current_q[1].question)
                 ELSE opened
    /\ lines' = Tail(lines)
    /\ UNCHANGED <<out, qResponse, qpc, notQuiz>>

\* After the loop: the open question is committed and the response is built.
QuizReturn ==
    /\ qpc = "lines"
    /\ lines = <<>>
    /\ LET final == IF current_q # <<>>
                    THEN Append(questions, current_q[1])
                    ELSE questions
       IN  /\ questions' = final
           /\ qResponse' = QuizResponse(final, out)
    /\ qpc' = "done"
    /\ UNCHANGED <<out, lines, current_q, opened, notQuiz>>

QuizNext == QuizCall \/ QuizLine \/ QuizReturn

\* ------------------------------------------- generator handle and wrapper
\* Texts the external process may write to its standard output.
Stdouts == SeqsUpTo({"g", " ", "\n"}, MaxStdoutLen)

\* Texts the external process may write to its standard error.
Stderrs == {<<>>, <<"e">>, <<"e", "\n", "r">>}

\* The handlers that call get_llama() and then llama.generate().
Endpoints == {"summarize", "quiz", "generate"}

\* _parse_output cutting at the last blank line instead of the first.
_parse_output_FromLastBlank(stdout) ==
    LET ls == SplitLines(stdout)
        blank == {i \in 1..Len(ls) : Strip(ls[i]) = <<>>}
    IN  IF blank # {}
        THEN LET i == CHOOSE j \in blank : \A k \in blank : j >= k
             IN  Strip(Join(<<"\n">>, SubSeq(ls, i + 1, Len(ls))))
        ELSE Strip(stdout)

\* LlamaWrapper._parse_output: what follows the first blank line, trimmed, or
\* the whole output trimmed when no line is blank.
_parse_output(stdout) ==
    LET ls == SplitLines(stdout)
        blank == {i \in 1..Len(ls) : Strip(ls[i]) = <<>>}
    IN  IF blank # {}
        THEN LET i == CHOOSE j \in blank : \A k \in blank : j <= k
             IN  Strip(Join(<<"\n">>, SubSeq(ls, i + 1, Len(ls))))
        ELSE Strip(stdout)

\* f"llama-cli failed (rc={proc.returncode}):\n{proc.stderr}"
FailureMessage(p) ==
    <<"llama-cli failed (rc=", ToString(p.returncode), ")", ":", "\n">>
        \o p.stderr

\* get_llama tests the files only under "if _llama is None".
GetLlamaTests(handle) == handle = "None"

\* A get_llama that builds a wrapper for the request at hand and leaves the
\* module-level name as it was.
HandleAfterGet_NotStored(handle) == handle

\* The module-level _llama once get_llama has passed its tests: the wrapper
\* built under "if _llama is None", or the handle that was already stored.
HandleAfterGet(handle) == IF GetLlamaTests(handle) THEN "handle" ELSE handle

LlamaInit ==
    /\ modelFile \in BOOLEAN
    /\ binFile \in BOOLEAN
    /\ _llama = "None"
    /\ reqCount = 0
    /\ endpoint = "none"
    /\ proc = NoProc
    /\ rResponse = [kind |-> "none"]
    /\ checked = FALSE
    /\ absentAtGet = FALSE
    /\ invoked = FALSE
    /\ parseCalls = 0
    /\ rpc = "idle"

\* The files are created and removed outside the program, at any moment.
FileChange ==
    /\ rpc # "off"
    /\ modelFile' \in BOOLEAN
    /\ binFile' \in BOOLEAN
    /\ <<modelFile', binFile'>> # <<modelFile, binFile>>
    /\ UNCHANGED <<reqVars, notLlama>>

\* A request arrives once the previous one has been answered.
ReqStart ==
    /\ rpc \in {"idle", "done"}
    /\ reqCount < MaxRequests
    /\ reqCount' = reqCount + 1
    /\ endpoint' \in Endpoints
    /\ proc' = NoProc
    /\ rResponse' = [kind |-> "none"]
    /\ checked' = FALSE
    /\ absentAtGet' = FALSE
    /\ invoked' = FALSE
    /\ parseCalls' = 0
    /\ rpc' = "get_llama"
    /\ UNCHANGED <<_llama, fileVars, notLlama>>

\* get_llama(): under "if _llama is None" the two isfile tests and the
\* construction of the wrapper, whose own exists() tests then pass; otherwise
\* the stored handle is returned as it is.  The wrapper module is part of the
\* repository, so "LlamaWrapper is None" does not arise.
GetLlama ==
    /\ rpc = "get_llama"
    /\ absentAtGet' = (~modelFile \/ ~binFile)
    /\ checked' = GetLlamaTests(_llama)
    /\ IF GetLlamaTests(_llama) /\ ~modelFile
       THEN /\ rResponse' = [kind |-> "configuration_error",
                              detail |-> "Model file not found"]
            /\ rpc' = "done"
            /\ UNCHANGED _llama
       ELSE IF GetLlamaTests(_llama) /\ ~binFile
       THEN /\ rResponse' = [kind |-> "configuration_error",
                              detail |-> "llama-cli binary not found"]
            /\ rpc' = "done"
            /\ UNCHANGED _llama
       ELSE /\ _llama' = HandleAfterGet(_llama)
            /\ rpc' = "invoke"
            /\ UNCHANGED rResponse
    /\ UNCHANGED <<reqCount, endpoint, proc, invoked, parseCalls, fileVars,
                   notLlama>>

\* LlamaWrapper.generate up to subprocess.run: with no executable the call
\* raises FileNotFoundError; otherwise the process runs and exits, with a
\* nonzero status when it cannot read the model file.
Invoke ==
    /\ rpc = "invoke"
    /\ invoked' = TRUE
    /\ IF ~binFile
       THEN /\ rResponse' = [kind |-> "os_error"]
            /\ rpc' = "done"
            /\ UNCHANGED proc
       ELSE /\ proc' \in [returncode : ExitCodes, stdout : Stdouts,
                          stderr : Stderrs]
            /\ ~modelFile => proc'.returncode # 0
            /\ rpc' = "check"
            /\ UNCHANGED rResponse
    /\ UNCHANGED <<_llama, reqCount, endpoint, checked, absentAtGet,
                   parseCalls, fileVars, notLlama>>

\* "if proc.returncode != 0: raise RuntimeError(...)"; no handler returns a
\* text once generate has raised.
CheckExit ==
    /\ rpc = "check"
    /\ IF GenerateRaises(proc.returncode)
       THEN /\ rResponse' = [kind |-> "generation_error",
                              message |-> FailureMessage(proc)]
            /\ rpc' = "done"
       ELSE /\ rpc' = "parse"
            /\ UNCHANGED rResponse
    /\ UNCHANGED <<_llama, reqCount, endpoint, proc, checked, absentAtGet,
                   invoked, parseCalls, fileVars, notLlama>>

\* "return self._parse_output(proc.stdout)"
ParseOutput ==
    /\ rpc = "parse"
    /\ parseCalls' = parseCalls + 1
    /\ rResponse' = [kind |-> "generated", text |-> _parse_output(proc.stdout)]
    /\ rpc' = "done"
    /\ UNCHANGED <<_llama, reqCount, endpoint, proc, checked, absentAtGet,
                   invoked, fileVars, notLlama>>

LlamaNext ==
    FileChange \/ ReqStart \/ GetLlama \/ Invoke \/ CheckExit \/ ParseOutput

\* --------------------------------------------------- extraction dispatcher
\* Path(filename).suffix for a name with no directory part: the text from
\* the last "." on, when that "." is neither the first nor the last
\* character of the name; else the empty string.
PathSuffix(name) ==
    LET i == rfind(name, ".", 0, Len(name))
    IN  IF 0 < i /\ i < Len(name) - 1 THEN Slice(name, i, Len(name)) ELSE <<>>

\* The spellings of a lowercase word in every mix of letter cases.
CaseVariants(w) ==
    {v \in [1..Len(w) -> UNION {{w[i], UpperOf(w[i])} : i \in 1..Len(w)}] :
        \A i \in 1..Len(w) : v[i] \in {w[i], UpperOf(w[i])}}

\* Extensions declared names end with: the recognised ones in every letter
\* case, near misses, and none.
ExtWords ==
    CaseVariants(<<"p", "d", "f">>) \cup CaseVariants(<<"d", "o", "c", "x">>)
        \cup CaseVariants(<<"t", "x", "t">>)
        \cup {<<"x", "y", "z">>, <<"p", "d">>, <<"p", "d", "f", "x">>,
              <<"d", "o", "c">>, <<"t", "x", "t", " ">>, <<>>}

\* What precedes the extension: nothing (a name that starts with its dot), a
\* plain stem, and a stem that itself holds a recognised extension.
Stems == {<<>>, <<"n">>, <<"n", ".", "p", "d", "f">>}

\* Declared names: with one of the extensions, or with no dot at all.
Filenames ==
    {st \o <<".">> \o e : st \in Stems, e \in ExtWords}
        \cup {<<"n">>, <<"p", "d", "f">>}

\* Contents of the uploaded file.
Contents == {"text_bytes", "other_bytes"}

\* The dispatch written without lower().
Dispatch_CaseSensitive(name) ==
    LET ext == PathSuffix(name)
    IN  IF ext = <<".", "p", "d", "f">> THEN "pdf"
        ELSE IF ext = <<".", "d", "o", "c", "x">> THEN "docx"
        ELSE IF ext \in {<<".", "t", "x", "t">>} THEN "txt"
        ELSE "unsupported"

\* extract_text_from_uploaded_file: the branch taken on
\* ext = Path(filename).suffix.lower()
Dispatch(name) ==
    LET ext == Lower(PathSuffix(name))
    IN  IF ext = <<".", "p", "d", "f">> THEN "pdf"
        ELSE IF ext = <<".", "d", "o", "c", "x">> THEN "docx"
        ELSE IF ext \in {<<".", "t", "x", "t">>} THEN "txt"
        ELSE "unsupported"

\* upload_file: suffix not in (".pdf", ".docx", ".txt")
UploadRefuses(name) ==
    Lower(PathSuffix(name)) \notin
        {<<".", "p", "d", "f">>, <<".", "d", "o", "c", "x">>, <<".", "t", "x", "t">>}

ExtractInit ==
    /\ filename \in Filenames
    /\ content \in Contents
    /\ via = "none"
    /\ selected = "none"
    /\ fileRead = FALSE
    /\ eResult = [kind |-> "none"]
    /\ epc = "start"

\* upload_file up to the call of the extractor: an unsupported suffix is
\* refused with 400 before any file is written.
UploadFile ==
    /\ epc = "start"
    /\ via' = "upload"
    /\ IF UploadRefuses(filename)
       THEN /\ eResult' = [kind |-> "http_400",
                            detail |-> "Unsupported file type. Use PDF, DOCX, or TXT."]
            /\ epc' = "done"
       ELSE /\ epc' = "extract"
            /\ UNCHANGED eResult
    /\ UNCHANGED <<filename, content, selected, fileRead, notExtract>>

\* extract_text_from_uploaded_file called on any declared name.
DirectCall ==
    /\ epc = "start"
    /\ via' = "direct"
    /\ epc' = "extract"
    /\ UNCHANGED <<filename, content, selected, fileRead, eResult, notExtract>>

\* extract_text_from_uploaded_file: the selected procedure reads the file
\* and returns its text, or raises on a document it cannot parse; the else
\* branch raises ValueError at once.
Extract ==
    /\ epc = "extract"
    /\ LET procedure == Dispatch(filename)
       IN  IF procedure = "unsupported"
           THEN /\ eResult' = [kind |-> "raised", error |-> "ValueError",
                                detail |-> "Unsupported file type. Use PDF, DOCX or TXT."]
                /\ UNCHANGED <<selected, fileRead>>
           ELSE /\ selected' = procedure
                /\ fileRead' = TRUE
                /\ \/ eResult' = [kind |-> "text", from |-> content]
                   \/ /\ procedure \in {"pdf", "docx"}
                      /\ eResult' = [kind |-> "raised", error |-> "parse_failure",
                                     detail |-> procedure]
    /\ epc' = "done"
    /\ UNCHANGED <<filename, content, via, notExtract>>

ExtractNext == UploadFile \/ DirectCall \/ Extract

\* --------------------------------------------------------- specifications
ChunkSpecInit == ChunkInit /\ SumIdle /\ QuizIdle /\ LlamaIdle /\ ExtractIdle

ChunkSpec == ChunkSpecInit /\ [][ChunkNext]_vars

\* The interpreter keeps executing the loop: a step that can be taken is taken.
FairChunkSpec == ChunkSpec /\ WF_vars(ChunkNext)

SumSpecInit == SumInit /\ ChunkIdle /\ QuizIdle /\ LlamaIdle /\ ExtractIdle

SumSpec == SumSpecInit /\ [][SumNext]_vars

SumRefSpec == SumSpecInit /\ [][SumRefNext]_vars

QuizSpecInit == QuizInit /\ ChunkIdle /\ SumIdle /\ LlamaIdle /\ ExtractIdle

QuizSpec == QuizSpecInit /\ [][QuizNext]_vars

LlamaSpecInit == LlamaInit /\ ChunkIdle /\ SumIdle /\ QuizIdle /\ ExtractIdle

LlamaSpec == LlamaSpecInit /\ [][LlamaNext]_vars

ExtractSpecInit ==
    ExtractInit /\ ChunkIdle /\ SumIdle /\ QuizIdle /\ LlamaIdle

ExtractSpec == ExtractSpecInit /\ [][ExtractNext]_vars

\* ----------------------------------------------------------- chunker claims
Intervals == [i \in 1..Len(cuts) |-> Slice(text, cuts[i].from, cuts[i].to)]

\* C1: the successive [start, split_index) intervals partition the trimmed
\* text: the first starts at 0, each starts where the previous one ended, the
\* last ends at len(text), and the i-th chunk is the trimmed slice of the i-th
\* interval, so the slices concatenated in order give the trimmed text back.
C1_IntervalsPartitionText ==
    cpc \in {"loop", "done"} =>
        /\ text = Strip(raw)
        /\ Len(chunks) = Len(cuts)
        /\ \A i \in 1..Len(cuts) :
              /\ cuts[i].from = (IF i = 1 THEN 0 ELSE cuts[i - 1].to)
              /\ cuts[i].to <= Len(text)
              /\ chunks[i] = Strip(Slice(text, cuts[i].from, cuts[i].to))
        /\ start = (IF cuts = <<>> THEN 0 ELSE cuts[Len(cuts)].to)
        /\ cpc = "done" => /\ start = Len(text)
                           /\ Concat(Intervals) = text

\* Several chunks, cut at a newline, one of them shortened by the trimming.
C1_Witness ==
    /\ cpc = "done"
    /\ Len(chunks) >= 2
    /\ \E i \in 1..Len(cuts) : cuts[i].how = "newline"
    /\ \E i \in 1..Len(cuts) : Len(chunks[i]) < cuts[i].to - cuts[i].from

\* C2: every iteration strictly increases the cursor, the hard window-end cut
\* is taken whenever neither separator search yields a position strictly
\* after the cursor, and the loop terminates.
C2_ProgressAndTermination ==
    /\ [][Len(chunks') > Len(chunks) =>
            start' > start /\ start' <= Len(text)]_vars
    /\ [](\A i \in 1..Len(cuts) :
            /\ cuts[i].to > cuts[i].from
            /\ (rfind(text, "\n", cuts[i].from,
                       Min2(cuts[i].from + max_chars, Len(text))) <= cuts[i].from
                /\ rfind(text, ".", cuts[i].from,
                         Min2(cuts[i].from + max_chars, Len(text))) <= cuts[i].from)
               => cuts[i].to = Min2(cuts[i].from + max_chars, Len(text)))
    /\ <>(cpc = "done")

\* A separator sits exactly at the cursor of a later iteration, whose window
\* is wider than one character, and the hard cut is taken; the loop has ended.
C2_Witness ==
    /\ cpc = "done"
    /\ max_chars >= 2
    /\ \E i \in 2..Len(cuts) :
          /\ text[cuts[i].from + 1] \in {"\n", "."}
          /\ cuts[i].how = "hard"

\* C3: every emitted chunk has at most max_chars characters.
C3_ChunkLengthBounded ==
    \A i \in 1..Len(chunks) : Len(chunks[i]) <= max_chars

\* Several chunks, one of them filling a window of more than one character.
C3_Witness ==
    /\ cpc = "done"
    /\ max_chars >= 2
    /\ Len(chunks) >= 2
    /\ \E i \in 1..Len(chunks) : Len(chunks[i]) = max_chars

\* --------------------------------------------------------- summarize claims
NoDuplicates(q) == \A i, j \in 1..Len(q) : q[i] = q[j] => i = j

\* C4: the bullets returned by summarize are at most 5 and pairwise distinct,
\* and the bullets list holds no duplicate at any point of the accumulation.
C4_BulletsCappedAndDistinct ==
    /\ NoDuplicates(bullets)
    /\ sResponse.kind = "ok" =>
          /\ Len(sResponse.bullets) <= BulletCap
          /\ NoDuplicates(sResponse.bullets)

\* Five bullets are returned after three chunks were read.
C4_Witness ==
    /\ spc = "done"
    /\ sResponse.kind = "ok"
    /\ Len(sResponse.bullets) = BulletCap
    /\ Len(submitted) = 3

\* C9: once generation has failed on chunk k the request has ended in
\* failure: chunks 1..k were each submitted once and no other, and the
\* response carries the error and neither bullets nor a summary.
C9_FailureHaltsSummarize ==
    /\ submitted = [i \in 1..Len(submitted) |-> i]
    /\ sFailedAt # 0 =>
          /\ spc = "failed"
          /\ Len(submitted) = sFailedAt
          /\ sResponse = [kind |-> "generation_error"]

\* Generation fails on the second chunk after the first one gave bullets and
\* a summary line.
C9_Witness ==
    /\ spc = "failed"
    /\ sFailedAt = 2
    /\ nChunks > sFailedAt
    /\ bullets # <<>>
    /\ summary_paragraphs # <<>>

\* -------------------------------------------------------------- quiz claims
\* C5: the quiz response never carries an empty structured list: with zero
\* questions it is the raw generated text alone, under no "quiz" key, and a
\* "quiz" key always comes with at least one question.
C5_NoEmptyStructuredQuiz ==
    qpc = "done" =>
        /\ questions = <<>> => qResponse = [quiz_raw |-> out]
        /\ "quiz" \in DOMAIN qResponse =>
              /\ Len(qResponse.quiz) >= 1
              /\ qResponse.quiz_raw = out

\* A text with lines to read gave no question, and the raw text is returned.
C5_Witness ==
    /\ qpc = "done"
    /\ TrimmedLines(out) # <<>>
    /\ questions = <<>>
    /\ qResponse = [quiz_raw |-> out]

\* No trimmed non-empty line of the text starts with "question" or ends
\* with "?".
NoQuestionLikeLine(o) ==
    \A i \in 1..Len(TrimmedLines(o)) : ~IsQuestionLine(TrimmedLines(o)[i])

\* Every trimmed non-empty line of the text is an answer-only line: not an
\* option line, and holding "(Answer:".
OnlyAnswerLines(o) ==
    \A i \in 1..Len(TrimmedLines(o)) :
        /\ ~IsOptionLine(TrimmedLines(o)[i])
        /\ Contains(TrimmedLines(o)[i], <<"(", "Answer:">>)

\* C6 as stated: a text with no question-like line yields no question and
\* the raw-text fallback.
C6_NoQuestionLineGivesNoQuestion ==
    (qpc = "done" /\ NoQuestionLikeLine(out)) =>
        /\ questions = <<>>
        /\ qResponse = [quiz_raw |-> out]

\* C6 as amended: on a text with no question-like line the parser ends
\* without an error; it yields no question, and so the raw-text fallback,
\* exactly when every trimmed non-empty line is an answer-only line (as when
\* there is no such line at all); otherwise the first option line or other
\* line opens a question and the structured list is returned.
C6_NoQuestionOnlyFromAnswerLines ==
    (qpc = "done" /\ NoQuestionLikeLine(out)) =>
        /\ DOMAIN qResponse \in {{"quiz_raw"}, {"quiz", "quiz_raw"}}
        /\ questions = <<>> <=> OnlyAnswerLines(out)
        /\ questions = <<>> <=> qResponse = [quiz_raw |-> out]
        /\ questions # <<>> =>
              /\ Len(questions) = 1
              /\ qResponse = [quiz |-> questions, quiz_raw |-> out]

\* Two texts with no question-like line: this one, of answer-only lines,
\* gave no question.
C6_Witness ==
    /\ qpc = "done"
    /\ NoQuestionLikeLine(out)
    /\ Len(TrimmedLines(out)) >= 2
    /\ questions = <<>>

\* ------------------------------------------------- generator handle claims
\* C7: when the external process exits with a nonzero status, generate ends
\* in an error whose message carries the process's stderr text, _parse_output
\* is not run, and no generated text is returned.
C7_NonzeroExitRaises ==
    proc.returncode # 0 =>
        /\ parseCalls = 0
        /\ rpc \in {"check", "done"}
        /\ rpc = "done" =>
              /\ rResponse.kind = "generation_error"
              /\ EndsWith(rResponse.message, proc.stderr)
              /\ "text" \notin DOMAIN rResponse

\* The process wrote to both streams and exited with a nonzero status; the
\* request has ended.
C7_Witness ==
    /\ rpc = "done"
    /\ proc.returncode # 0
    /\ proc.stderr # <<>>
    /\ _parse_output(proc.stdout) # <<>>
    /\ rResponse.kind = "generation_error"

\* C8: in every request the existence of the model file and of the
\* executable is tested before the external process is invoked, and a
\* request during which get_llama ran with either file absent ends in the
\* configuration error of get_llama.
C8_FilesTestedBeforeEachInvocation ==
    /\ invoked => checked
    /\ (rpc = "done" /\ absentAtGet) => rResponse.kind = "configuration_error"

\* ------------------------------------------------------- extraction claims
Recognised ==
    {<<".", "p", "d", "f">>, <<".", "d", "o", "c", "x">>, <<".", "t", "x", "t">>}

ProcedureFor(ext) ==
    CASE ext = <<".", "p", "d", "f">> -> "pdf"
      [] ext = <<".", "d", "o", "c", "x">> -> "docx"
      [] ext = <<".", "t", "x", "t">> -> "txt"

\* C10: a declared name whose lowercased suffix is not .pdf, .docx or .txt
\* makes extract_text_from_uploaded_file fail with the unsupported-type
\* error, no procedure run and the file unread, whatever the content; a name
\* whose suffix is a recognised one in any letter case selects the matching
\* procedure.
C10_DispatchOnLowercasedSuffix ==
    (epc = "done" /\ via = "direct") =>
        /\ Lower(PathSuffix(filename)) \notin Recognised =>
              /\ eResult.kind = "raised"
              /\ eResult.error = "ValueError"
              /\ selected = "none"
              /\ ~fileRead
        /\ Lower(PathSuffix(filename)) \in Recognised =>
              /\ selected = ProcedureFor(Lower(PathSuffix(filename)))
              /\ fileRead

\* A name with an unknown suffix after a stem that holds ".pdf" was refused.
C10_Witness ==
    /\ epc = "done"
    /\ via = "direct"
    /\ filename = <<"n", ".", "p", "d", "f", ".", "x", "y", "z">>
    /\ eResult.kind = "raised"
    /\ eResult.error = "ValueError"
    /\ ~fileRead

\* ---------------------------------------------------------------- C11
\* The positions of s at which a line starts: the first character, and every
\* character that follows a newline.
LineStarts(s) == {p \in 1..Len(s) : p = 1 \/ s[p - 1] = "\n"}

\* The position of the newline that ends the line starting at p, or one past
\* the end of s when that line is the last and has no newline.
LineEnd(s, p) ==
    IF \E e \in p..Len(s) : s[e] = "\n"
    THEN CHOOSE e \in p..Len(s) :
             s[e] = "\n" /\ \A k \in p..(e - 1) : s[k] # "\n"
    ELSE Len(s) + 1

\* The starts of the blank lines of s: empty or whitespace only.
BlankLineStarts(s) ==
    {p \in LineStarts(s) : \A k \in p..(LineEnd(s, p) - 1) : s[k] \in Whitespace}

\* C11: the text _parse_output returns is, when the output has a blank line
\* (empty or whitespace only), everything after the first such line with
\* leading and trailing whitespace removed, and otherwise the whole output
\* with leading and trailing whitespace removed; an output whose only blank
\* line is its last line gives the empty text.
C11_ParseOutputAfterFirstBlankLine ==
    rResponse.kind = "generated" =>
        LET s == proc.stdout
            b == BlankLineStarts(s)
        IN  /\ b # {} =>
                  LET p == CHOOSE q \in b : \A r \in b : q <= r
                  IN  rResponse.text = Strip(SubSeq(s, LineEnd(s, p) + 1, Len(s)))
            /\ b = {} => rResponse.text = Strip(s)
            /\ (\E p \in b : b = {p} /\ LineEnd(s, p) >= Len(s)) =>
                  rResponse.text = <<>>

\* A header line, a blank line and text after it were parsed.
C11_Witness ==
    /\ rResponse.kind = "generated"
    /\ proc.stdout = <<"g", "\n", "\n", "g">>
    /\ rResponse.text = <<"g">>

\* ---------------------------------------------------------------- C12
\* C12 as stated: no request reads a variable that another request wrote, so
\* what a request finds in the module-level state when it calls get_llama
\* is what construction left there.
C12_NoStateSharedBetweenRequests ==
    rpc = "get_llama" => _llama = "None"

\* C12 amended: the module-level _llama is the one variable shared between
\* requests.  It is written only by get_llama, only from None to the
\* wrapper, hence at most once in the life of the process; it stays set for
\* every later request; and everything else a request writes is fresh when
\* the request starts.
C12_OnlyLlamaHandleIsShared ==
    /\ [][_llama' # _llama =>
              /\ rpc = "get_llama"
              /\ _llama = "None"
              /\ _llama' = "handle"]_vars
    /\ [](invoked => _llama = "handle")
    /\ [](rpc = "get_llama" =>
              /\ proc = NoProc
              /\ rResponse = [kind |-> "none"]
              /\ ~invoked
              /\ ~checked
              /\ parseCalls = 0)

\* A second request was answered with the wrapper the first request stored.
C12_Witness ==
    /\ reqCount = 2
    /\ rpc = "done"
    /\ ~checked
    /\ _llama = "handle"
    /\ rResponse.kind = "generated"

\* ---------------------------------------------------------------- C13
\* C13: every question record the quiz parser opens is committed to the
\* result exactly once and in the order of opening: while the lines are
\* read, the records opened so far are the committed ones followed by the
\* open one; a question-like line commits the open record, if any, and
\* opens a record with that line as text, no options and no answer; the
\* record open after the last line is committed; and the questions returned
\* are as many as the records opened.
C13_OpenedQuestionsCommittedOnceInOrder ==
    /\ [](qpc \in {"lines", "done"} =>
              /\ Len(opened) = Len(questions)
                      + (IF qpc = "lines" /\ current_q # <<>> THEN 1 ELSE 0)
              /\ \A i \in 1..Len(questions) :
                      questions[i].question = opened[i]
              /\ qpc = "lines" /\ current_q # <<>> =>
                      current_q[1].question = opened[Len(opened)])
    /\ [][qpc = "lines" /\ lines # <<>> /\ IsQuestionLine(Head(lines)) =>
              /\ current_q' = <<NewQuestion(Head(lines))>>
              /\ questions' = IF current_q # <<>>
                               THEN Append(questions, current_q[1])
                               ELSE questions]_vars
    /\ [](qpc = "done" /\ Len(opened) > 0 =>
              /\ "quiz" \in DOMAIN qResponse
              /\ Len(qResponse.quiz) = Len(opened))

\* Two records were opened, the first by an option line, and both returned.
C13_Witness ==
    /\ qpc = "done"
    /\ Len(opened) = 2
    /\ opened[1] = <<>>
    /\ questions[1].options # <<>>
    /\ Len(qResponse.quiz) = 2

\* ---------------------------------------------------------------- C14
\* The lines of ls that carry an option marker, in their order.
RECURSIVE OptionMarkerLines(_)
OptionMarkerLines(ls) ==
    IF ls = <<>> THEN <<>>
    ELSE IF IsOptionLine(Head(ls))
    THEN <<Head(ls)>> \o OptionMarkerLines(Tail(ls))
    ELSE OptionMarkerLines(Tail(ls))

\* The option lists of the questions qs, one after another.
AllOptions(qs) == Concat([i \in 1..Len(qs) |-> qs[i].options])

\* C14: every line with an option marker (its uppercased form starts with
\* A, B, C or D followed by ")", "." or a space) is appended, in input
\* order, to the options of the question open at that line, a blank
\* question being opened first when none is; none is dropped and none
\* becomes a question: the options of the returned questions, one list after
\* another, are the option-marker lines of the generated text, and no
\* returned question has an option-marker line as its text.
C14_OptionLinesAllKept ==
    qpc = "done" =>
        /\ AllOptions(questions) = OptionMarkerLines(TrimmedLines(out))
        /\ \A i \in 1..Len(questions) : ~IsOptionLine(questions[i].question)

\* ---------------------------------------------------------------- C15
\* C15: when a question is open and a line that is not an option line holds
\* an answer marker, "Answer:" with or without a "(" before it, the answer
\* of the open question becomes the text after the marker without its
\* surrounding ")" and spaces, and the options stay as they were.
C15_AnswerLineSetsOpenAnswer ==
    [][(/\ qpc = "lines"
        /\ lines # <<>>
        /\ current_q # <<>>
        /\ ~IsQuestionLine(Head(lines))
        /\ ~IsOptionLine(Head(lines))
        /\ Contains(Head(lines), <<"Answer:">>))
       => /\ current_q' # <<>>
          /\ current_q'[1].answer =
                <<StripChars(AfterFirst(Head(lines), <<"Answer:">>), {" ", ")"})>>
          /\ current_q'[1].options = current_q[1].options
          /\ current_q'[1].question = current_q[1].question
          /\ questions' = questions]_vars

\* ---------------------------------------------------------------- C16
\* The handler left its loop at the break with chunks still unread, and the
\* loop without the break has read them all.
StoppedEarly ==
    /\ refpc = "done"
    /\ sResponse.kind = "ok"
    /\ Len(submitted) < nChunks

IsPrefix(a, b) == Len(a) <= Len(b) /\ SubSeq(b, 1, Len(a)) = a

\* C16 as stated: leaving the loop once five bullets are held changes
\* nothing in the result: the bullets and the summary string returned are
\* those of the loop that reads every chunk and then keeps five bullets.
C16_EarlyStopSameResult ==
    refpc = "done" =>
        /\ sResponse.bullets = refResponse.bullets
        /\ sResponse.summary = refResponse.summary

\* C16 amended: the bullets returned are those of the loop that reads every
\* chunk and then keeps five; the summary returned is a prefix of that
\* loop's summary, and the same string when no chunk was left unread.
C16_EarlyStopSameBulletsPrefixSummary ==
    refpc = "done" =>
        /\ sResponse.bullets = refResponse.bullets
        /\ IsPrefix(sResponse.summary, refResponse.summary)
        /\ Len(submitted) = nChunks =>
              sResponse.summary = refResponse.summary

\* The break left a chunk unread whose text held a further bullet and a
\* summary line.
C16_Witness ==
    /\ StoppedEarly
    /\ Len(refBullets) > Len(bullets)
    /\ Len(refResponse.summary) > Len(sResponse.summary)

\* ---------------------------------------------------------------- C17
\* C17: when the trimmed text is not empty and no longer than max_chars,
\* simple_chunk_text returns exactly one chunk, the whole trimmed text,
\* whether or not the text holds newlines or periods.
C17_FittingTextIsOneChunk ==
    cpc = "done" /\ text # <<>> /\ Len(text) <= max_chars =>
        chunks = <<text>>

\* ---------------------------------------------------------------- C18
\* C18: no chunk simple_chunk_text emits is the empty string, whatever the
\* text and max_chars >= 1, so that no prompt is built from an empty chunk.
C18_NoEmptyChunk ==
    \A i \in 1..Len(chunks) : chunks[i] # <<>>

====
